---- MODULE Spec2Model ----
(***************************************************************************)
(* Model of telegram-rss-bot: the subscription store (src/unnamed/part_000)*)
(* and the update engine and command handling (src/main.go, the revision   *)
(* starting at line 299).                                                  *)
(*                                                                         *)
(* Time.  A time.Time is an integer number of ticks, TicksPerSecond ticks  *)
(* to the second, so that a feed item can carry a publish time between two *)
(* whole seconds.  The store keeps Unix seconds: Unix(t) is t.Unix() and   *)
(* TimeUnix(s) is time.Unix(s, 0).                                         *)
(*                                                                         *)
(* Store.  The SQL schema is not part of the sources; what the             *)
(* specification states of it (feeds.url unique, updates (chatID, feedID)  *)
(* unique, DropFeed cascading to the subscriptions of the feed) are the    *)
(* operators UniqueURL, UniqueSub and CascadeDelete.  The inserts and      *)
(* deletes check nothing else.  A transaction reads the committed tables   *)
(* (plain                                                                  *)
(* SELECTs take no locks at the isolation level BeginTx(ctx, nil) asks     *)
(* for) and its own inserts become visible to others at Commit.            *)
(***************************************************************************)
EXTENDS Integers, Sequences, FiniteSets, TLC

\* ----------------------------------------------------------------- bounds
NumChats == 2
NumUsers == 2
NumURLs == 2
NumAdders == 2
MaxLimit == 1
MaxRows == 2
MaxFeedID == 3
MaxTime == 3
MaxItems == 2
MaxPub == 4
MaxCursorRows == 3

\* ------------------------------------------------------ program constants
TicksPerSecond == 2
FailureThreshold == 9
FailureWindowHours == 12

Chats == 1..NumChats
Users == 1..NumUsers
URLs == 1..NumURLs
Adders == 1..NumAdders
Limits == 0..MaxLimit
FeedIDs == 1..MaxFeedID
ItemIDs == 1..MaxItems

ErrMaxFeedsInChat == "ErrMaxFeedsInChat"
ErrMaxTotalFeedsByUser == "ErrMaxTotalFeedsByUser"
ErrMaxActiveFeedsByUser == "ErrMaxActiveFeedsByUser"
ErrArgs == "sql: expected fewer arguments, got 3"
ErrDuplicate == "duplicate key"
ErrDriver == "driver: bad connection"
ErrSyntax == "Error 1064: You have an error in your SQL syntax"
ErrNoRows == "sql: no rows in result set"
DeadlineExceeded == "context deadline exceeded"
Canceled == "context canceled"
QuotaErrors == {ErrMaxFeedsInChat, ErrMaxTotalFeedsByUser, ErrMaxActiveFeedsByUser}

\* A missing time (a nil *time.Time).
NoTime == -1
\* var firstSecond = time.Unix(0, 0)
firstSecond == 0

VARIABLES
    cfg,        \* DB.MaxFeedsPerChat, DB.MaxTotalFeedsByUser, DB.MaxActiveFeedsByUser
    feeds,      \* table feeds: set of rows [id, url, userID]
    nextID,     \* AUTO_INCREMENT counter of feeds.id
    updates,    \* table updates: rows [chatID, feedID, userID, lastUpdate] in insertion order
    feedErrors, \* table feedErrors: rows [feedID, timestamp]
    now,        \* the wall clock, in ticks
    tx,         \* one AddFeedToChat call per /addfeed goroutine
    docs,       \* the document each feed URL serves: [updated, items], items rows [id, pub]
    up,         \* the locals of the periodicUpdate goroutine and its position
    feedsCur,   \* the cursor of db.Feeds: [rows, open]
    subsCur,    \* the cursor of db.Subs: [rows, open]
    expired,    \* the pass context is done (updateTimeout elapsed)
    result,     \* what the last call of update returned
    main,       \* the main loop: in its select, or inside RemoveFeedFromChat
    notify,     \* removal notices the goroutine of feedError still has to send
    sent,       \* the messages handed to the notifier in the current pass, in order
    delivered,  \* per (chat, feed, item): how often it was handed to the notifier (up to 2)
    notices,    \* per (chat, feed): removal notices handed to the notifier (up to 2)
    dropped,    \* the (feed, chat) pairs that were subscribed when DropFeed ran
    nfail,      \* per feed: the failures feedError has handled (up to failCap)
    failCap     \* where nfail stops counting

store == <<feeds, nextID, updates, feedErrors>>
engine == <<docs, up, feedsCur, subsCur, expired, result, main, notify>>
observed == <<sent, delivered, notices, dropped, nfail, failCap>>
vars == <<cfg, feeds, nextID, updates, feedErrors, now, tx, docs, up, feedsCur, subsCur,
          expired, result, main, notify, sent, delivered, notices, dropped, nfail, failCap>>

\* ------------------------------------------------------------------- time
Unix(t) == t \div TicksPerSecond
TimeUnix(s) == s * TicksPerSecond
After(t, u) == t > u
Before(t, u) == t < u

\* ------------------------------------------------------- sequence helpers
Count(rows, Keep(_)) == Cardinality({i \in 1..Len(rows) : Keep(rows[i])})

\* ------------------------------------------------------------ the schema
UniqueURL(url) == \A f \in feeds : f.url # url
UniqueSub(chatID, feedID) ==
    \A i \in 1..Len(updates) : ~(updates[i].chatID = chatID /\ updates[i].feedID = feedID)
FeedExists(feedID) == \E f \in feeds : f.id = feedID
CascadeDelete(rows, feedID) == SelectSeq(rows, LAMBDA r : r.feedID # feedID)

\* ------------------------------------------------- DB.Prepare, the check
\* The three sub-queries; a limit of 0 replaces the sub-query by the literal 0,
\* which has no placeholder.
Q1(chatID) ==
    IF cfg.MaxFeedsPerChat = 0 THEN 0
    ELSE IF Count(updates, LAMBDA r : r.chatID = chatID) >= cfg.MaxFeedsPerChat THEN 1 ELSE 0
Q2(userID) ==
    IF cfg.MaxTotalFeedsByUser = 0 THEN 0
    ELSE IF Cardinality({f \in feeds : f.userID = userID}) >= cfg.MaxTotalFeedsByUser THEN 1 ELSE 0
Q3(userID) ==
    IF cfg.MaxActiveFeedsByUser = 0 THEN 0
    ELSE IF Count(updates, LAMBDA r : r.userID = userID) >= cfg.MaxActiveFeedsByUser THEN 1 ELSE 0

\* Number of "?" in fullQuery.
Placeholders ==
    (IF cfg.MaxFeedsPerChat = 0 THEN 0 ELSE 1)
    + (IF cfg.MaxTotalFeedsByUser = 0 THEN 0 ELSE 1)
    + (IF cfg.MaxActiveFeedsByUser = 0 THEN 0 ELSE 1)

Bit(res, k) == (res \div k) % 2

\* db.checkAddConstraint: QueryRowContext(ctx, fullQuery, chatID, userID, userID)
\* always passes three arguments; database/sql refuses a statement whose number
\* of placeholders differs from the number of arguments.
checkAddConstraint(userID, chatID) ==
    IF Placeholders # 3 THEN ErrArgs
    ELSE LET res == Q1(chatID) + 2 * Q2(userID) + 4 * Q3(userID)
         IN  IF Bit(res, 1) # 0 THEN ErrMaxFeedsInChat
             ELSE IF Bit(res, 2) # 0 THEN ErrMaxTotalFeedsByUser
             ELSE IF Bit(res, 4) # 0 THEN ErrMaxActiveFeedsByUser
             ELSE "nil"

\* ------------------------------------------------------ DB.AddFeedToChat
IdleTx == [pc |-> "idle", userID |-> 0, chatID |-> 0, url |-> 0, check |-> "none",
           seen |-> <<0, 0, 0>>, feedID |-> 0, newFeed |-> FALSE, lastUpdate |-> 0,
           ret |-> "none", title |-> ""]

\* SELECT id FROM feeds WHERE url=?
FeedIDByURL(url) ==
    IF \E f \in feeds : f.url = url THEN (CHOOSE f \in feeds : f.url = url).id ELSE 0

\* BeginTx and checkAddConstraint (lines 92-100).  seen records the three
\* counts the check read.  The SELECT of line 103 reads the same snapshot.
\* title is feed.Title as the caller gives it, named by where it came from.
AddFeedToChat_Begin(p, userID, chatID, url, title) ==
    /\ tx[p].pc = "idle"
    /\ Len(updates) < MaxRows
    /\ nextID <= MaxFeedID
    /\ LET err == checkAddConstraint(userID, chatID)
           t == [IdleTx EXCEPT !.userID = userID, !.chatID = chatID, !.url = url,
                   !.title = title, !.check = err,
                   !.seen = <<Count(updates, LAMBDA r : r.chatID = chatID),
                              Cardinality({f \in feeds : f.userID = userID}),
                              Count(updates, LAMBDA r : r.userID = userID)>>]
       IN  tx' = [tx EXCEPT ![p] =
                    IF err # "nil" THEN [t EXCEPT !.pc = "done", !.ret = err]
                    ELSE [t EXCEPT !.pc = "lookup", !.feedID = FeedIDByURL(url)]]
    /\ UNCHANGED <<cfg, store, now, engine, observed>>

\* ------------------------------------------------------ addFeed (main.go)
\* A feed URL as url.Parse splits it (line 504): the scheme and what follows
\* it (//host/path), the latter named by a number of URLs.
Schemes == {"http", "https"}
RawURLs == [Scheme : Schemes, Rest : URLs]

\* u.String(): "scheme:" if there is a scheme, then the rest.  The strings are
\* numbered; the ones without scheme are 1..NumURLs, the keys of feeds.url.
URLString(u) ==
    IF u.Scheme = "" THEN u.Rest
    ELSE IF u.Scheme = "http" THEN NumURLs + u.Rest
    ELSE 2 * NumURLs + u.Rest

\* Lines 513-514: u.Scheme = ""; url := u.String()
Normalize(u) == URLString([u EXCEPT !.Scheme = ""])

\* DB.FeedByURL: QueryRowContext(ctx, "SELECT id,title WHERE url=?", url).
\* The statement has no FROM clause and the server refuses it whatever the
\* table holds; Scan returns that error and f keeps its zero ID and Title.
FeedByURL(url) == [ID |-> 0, Title |-> "", URL |-> url, err |-> ErrSyntax]

\* Lines 504-540: addFeed normalises the URL, takes the title from
\* db.FeedByURL or, when that returns an error, from the feed fetched via
\* HTTPS (the fetch succeeds here), and calls AddFeedToChat.
addFeed(p, userID, chatID, feedURL) ==
    LET url == Normalize(feedURL)
        info == FeedByURL(url)
    IN  AddFeedToChat_Begin(p, userID, chatID, url,
                            IF info.err = "nil" THEN "stored" ELSE "fetched")

\* The INSERT of line 110 with no unique key on feeds.url to stop it.
FeedInsertUnchecked(p) ==
    /\ tx[p].pc = "lookup"
    /\ IF tx[p].feedID # 0
       THEN /\ tx' = [tx EXCEPT ![p].pc = "insert"]
            /\ UNCHANGED nextID
       ELSE /\ tx' = [tx EXCEPT ![p].pc = "insert", ![p].feedID = nextID,
                                ![p].newFeed = TRUE]
            /\ nextID' = nextID + 1
    /\ UNCHANGED <<cfg, feeds, updates, feedErrors, now, engine, observed>>

\* AddFeedToChat called with a title the model does not follow.
AddFeedToChat_Check(p, userID, chatID, url) ==
    AddFeedToChat_Begin(p, userID, chatID, url, "")

\* Lines 102-115: the feed found by the SELECT, or INSERT INTO feeds.  The
\* insert waits while another transaction holds an uncommitted row with the
\* same url, and fails on a committed one.
AddFeedToChat_Feed(p) ==
    /\ tx[p].pc = "lookup"
    /\ IF tx[p].feedID # 0
       THEN /\ tx' = [tx EXCEPT ![p].pc = "insert"]
            /\ UNCHANGED nextID
       ELSE /\ \A q \in Adders \ {p} : ~(tx[q].newFeed /\ tx[q].url = tx[p].url)
            /\ IF UniqueURL(tx[p].url)
               THEN /\ tx' = [tx EXCEPT ![p].pc = "insert", ![p].feedID = nextID,
                                        ![p].newFeed = TRUE]
                    /\ nextID' = nextID + 1
               ELSE /\ tx' = [tx EXCEPT ![p].pc = "done", ![p].ret = ErrDuplicate]
                    /\ UNCHANGED nextID
    /\ UNCHANGED <<cfg, feeds, updates, feedErrors, now, engine, observed>>

\* The INSERT of line 117 with no unique key on (chatID, feedID) to stop it.
SubInsertUnchecked(p) ==
    /\ tx[p].pc = "insert"
    /\ tx' = [tx EXCEPT ![p].pc = "commit", ![p].lastUpdate = Unix(now)]
    /\ UNCHANGED <<cfg, store, now, engine, observed>>

\* Lines 117-122: INSERT INTO updates with lastUpdate = time.Now().Unix().
AddFeedToChat_Sub(p) ==
    /\ tx[p].pc = "insert"
    /\ \A q \in Adders \ {p} :
          ~(tx[q].pc = "commit" /\ tx[q].chatID = tx[p].chatID /\ tx[q].feedID = tx[p].feedID)
    /\ LET err == IF ~UniqueSub(tx[p].chatID, tx[p].feedID) THEN ErrDuplicate
                  ELSE "nil"
       IN  tx' = [tx EXCEPT ![p] =
                    IF err # "nil"
                    THEN [@ EXCEPT !.pc = "done", !.ret = err, !.newFeed = FALSE]
                    ELSE [@ EXCEPT !.pc = "commit", !.lastUpdate = Unix(now)]]
    /\ UNCHANGED <<cfg, store, now, engine, observed>>

\* Line 124: tx.Commit() publishes the feed row (if inserted) and the updates row.
AddFeedToChat_Commit(p) ==
    /\ tx[p].pc = "commit"
    /\ feeds' = IF tx[p].newFeed
                THEN feeds \cup {[id |-> tx[p].feedID, url |-> tx[p].url, userID |-> tx[p].userID]}
                ELSE feeds
    /\ updates' = Append(updates, [chatID |-> tx[p].chatID, feedID |-> tx[p].feedID,
                                   userID |-> tx[p].userID, lastUpdate |-> tx[p].lastUpdate])
    /\ tx' = [tx EXCEPT ![p].pc = "done", ![p].ret = "nil", ![p].newFeed = FALSE]
    /\ UNCHANGED <<cfg, nextID, feedErrors, now, engine, observed>>

\* A statement of the transaction, or its commit, fails in the driver (lines
\* 105-108, 119-122, 124): tx.Rollback() and the error is returned; a failed
\* commit is rolled back by the server.  Nothing the transaction wrote is kept.
AbortKeepsFeed(p) ==
    /\ tx[p].pc \in {"lookup", "insert", "commit"}
    /\ feeds' = IF tx[p].newFeed
                THEN feeds \cup {[id |-> tx[p].feedID, url |-> tx[p].url, userID |-> tx[p].userID]}
                ELSE feeds
    /\ tx' = [tx EXCEPT ![p].pc = "done", ![p].ret = ErrDriver, ![p].newFeed = FALSE]
    /\ UNCHANGED <<cfg, nextID, updates, feedErrors, now, engine, observed>>

\* The INSERT INTO updates of line 117 run on db.q instead of tx: the rollback
\* of a failed commit does not take the subscription row back.
AbortKeepsSub(p) ==
    /\ tx[p].pc \in {"lookup", "insert", "commit"}
    /\ updates' = IF tx[p].pc = "commit"
                  THEN Append(updates, [chatID |-> tx[p].chatID, feedID |-> tx[p].feedID,
                                        userID |-> tx[p].userID,
                                        lastUpdate |-> tx[p].lastUpdate])
                  ELSE updates
    /\ tx' = [tx EXCEPT ![p].pc = "done", ![p].ret = ErrDriver, ![p].newFeed = FALSE]
    /\ UNCHANGED <<cfg, feeds, nextID, feedErrors, now, engine, observed>>

AddFeedToChat_Abort(p) ==
    /\ tx[p].pc \in {"lookup", "insert", "commit"}
    /\ tx' = [tx EXCEPT ![p].pc = "done", ![p].ret = ErrDriver, ![p].newFeed = FALSE]
    /\ UNCHANGED <<cfg, store, now, engine, observed>>

\* addFeed returns and the /addfeed goroutine ends (main.go 699-704).
AddFeedToChat_Return(p) ==
    /\ tx[p].pc = "done"
    /\ tx' = [tx EXCEPT ![p] = IdleTx]
    /\ UNCHANGED <<cfg, store, now, engine, observed>>

\* The wall clock advances.
Tick ==
    /\ now < MaxTime * TicksPerSecond
    /\ now' = now + 1
    /\ UNCHANGED <<cfg, store, tx, engine, observed>>


\* ------------------------------------------------------ the store queries
Min(a, b) == IF a < b THEN a ELSE b

\* A statement without ORDER BY returns its rows in the order of whatever
\* access path the server takes: every order of the rows is a possible result.
Orders(S) ==
    LET n == Cardinality(S)
    IN  {s \in [1..n -> S] : \A i, j \in 1..n : s[i] = s[j] => i = j}

Reorder(rows) == {[i \in 1..Len(rows) |-> rows[p[i]]] : p \in Orders(1..Len(rows))}

\* DB.Feeds: SELECT id,url FROM feeds.  The result sets the query can give.
Feeds == Orders(feeds)

\* DB.Subs: SELECT chatID, lastUpdate FROM updates WHERE feedID=? AND
\* updates.lastUpdate < ?, with latestUpdate.Unix() as the bound; each row is
\* handed over as Sub{ChatID, LastUpdate: time.Unix(lastUpdate, 0)}.  Subs is
\* the rows the query selects; it has no ORDER BY, and the callers take them
\* in any order (Reorder).
SubRow(r) == [ChatID |-> r.chatID, LastUpdate |-> TimeUnix(r.lastUpdate)]
Subs(feedID, latestUpdate) ==
    LET hit == SelectSeq(updates,
                   LAMBDA r : r.feedID = feedID /\ r.lastUpdate < Unix(latestUpdate))
    IN  [i \in 1..Len(hit) |-> SubRow(hit[i])]

\* DB.UpdateSub: UPDATE updates SET lastUpdate=? WHERE chatID=? AND feedID=?
UpdateSub(chatID, feedID, t) ==
    [i \in 1..Len(updates) |->
        IF updates[i].chatID = chatID /\ updates[i].feedID = feedID
        THEN [updates[i] EXCEPT !.lastUpdate = Unix(t)]
        ELSE updates[i]]

\* DB.AddFeedError: INSERT INTO feedErrors (feedID, timestamp)
AddFeedError(feedID) == Append(feedErrors, [feedID |-> feedID, timestamp |-> Unix(now)])

\* The count without the condition on feedID.
RecentFeedErrorsAnyFeed(since, feedID) ==
    Count(feedErrors, LAMBDA e : e.timestamp >= Unix(since))

\* DB.RecentFeedErrors: SELECT COUNT(*) FROM feedErrors WHERE feedID=? AND timestamp >= ?
RecentFeedErrors(since, feedID) ==
    Count(feedErrors, LAMBDA e : e.feedID = feedID /\ e.timestamp >= Unix(since))

\* DB.DropFeed: DELETE FROM feeds WHERE id=?
DropFeed(id) == {f \in feeds : f.id # id}

\* time.Hour*12, in ticks
FailureWindow == FailureWindowHours * 3600 * TicksPerSecond

\* ------------------------------------------------------------- update
\* Lines 391-406: the feed-level update time, else the latest publish time of an
\* item, else none (updated is still &firstSecond).
RECURSIVE LatestPub(_, _)
LatestPub(items, updated) ==
    IF items = <<>> THEN updated
    ELSE LET pub == Head(items).pub
         IN  LatestPub(Tail(items), IF pub # NoTime /\ After(pub, updated) THEN pub ELSE updated)

Freshness(doc) ==
    IF doc.updated # NoTime THEN doc.updated
    ELSE LET updated == LatestPub(doc.items, firstSecond)
         IN  IF updated = firstSecond THEN NoTime ELSE updated

\* The filter letting through an item published at the subscriber's LastUpdate.
NewItemsAtOrAfter(items, lastUpdate) ==
    SelectSeq(items, LAMBDA it : it.pub # NoTime /\ ~Before(it.pub, lastUpdate))

\* Lines 425-430: the items published after the subscriber's LastUpdate.
NewItems(items, lastUpdate) ==
    SelectSeq(items, LAMBDA it : it.pub # NoTime /\ After(it.pub, lastUpdate))

\* Lines 443-445: sort.Slice by PublishedParsed.Before (an insertion sort on the
\* short slices of the model).
RECURSIVE InsertItem(_, _)
InsertItem(sorted, it) ==
    IF sorted = <<>> THEN <<it>>
    ELSE IF Before(it.pub, sorted[Len(sorted)].pub)
         THEN InsertItem(SubSeq(sorted, 1, Len(sorted) - 1), it) \o <<sorted[Len(sorted)]>>
         ELSE Append(sorted, it)

RECURSIVE SortItems(_)
SortItems(items) ==
    IF items = <<>> THEN <<>>
    ELSE InsertItem(SortItems(SubSeq(items, 1, Len(items) - 1)), items[Len(items)])

NoFeed == [id |-> 0, url |-> 0, userID |-> 0]
NoSub == [ChatID |-> 0, LastUpdate |-> 0]
ClosedCur == [rows |-> <<>>, open |-> FALSE]
IdleUp == [pc |-> "wait", info |-> NoFeed, items |-> <<>>, updated |-> NoTime, sub |-> NoSub,
           newItems |-> <<>>, anyErr |-> "nil", chatIDs |-> <<>>, cut |-> FALSE,
           failed |-> FALSE, fetchErr |-> FALSE, rerun |-> FALSE, ctxErr |-> "nil",
           tick |-> 0, inflight |-> 0]
NoResult == [err |-> "none", complete |-> FALSE, clean |-> FALSE]

Bump(n) == Min(n + 1, 2)

\* The root context of main (line 620) is cancelled: the main loop has handled
\* a signal.  With it the context of a pass is done and db.Feeds fails.
RootDone == main.pc \in {"cancelled", "exited"}

\* update returns err and periodicUpdate, instead of going to its select,
\* returns when err is an error.
ReturnEndsEngine(err) ==
    /\ up' = [IdleUp EXCEPT !.tick = up.tick, !.inflight = up.inflight - 1,
                            !.pc = IF err = "nil" THEN "wait" ELSE "exit"]
    /\ result' = [err |-> err,
                  complete |-> feedsCur.rows = <<>> /\ subsCur.rows = <<>> /\ ~up.cut,
                  clean |-> err = "nil" /\ ~expired /\ ~up.failed]
    /\ feedsCur' = ClosedCur
    /\ subsCur' = ClosedCur

\* update returns err (lines 371, 383, 413, 455, 461); periodicUpdate goes to
\* its select.  complete: no feed row and no subscriber row was left unread;
\* clean: a normal return before the deadline with no fetch having failed.
Return(err) ==
    /\ up' = [IdleUp EXCEPT !.tick = up.tick, !.inflight = up.inflight - 1]
    /\ result' = [err |-> err,
                  complete |-> feedsCur.rows = <<>> /\ subsCur.rows = <<>> /\ ~up.cut,
                  clean |-> err = "nil" /\ ~expired /\ ~up.failed]
    /\ feedsCur' = ClosedCur
    /\ subsCur' = ClosedCur

\* periodicUpdate calls update: context.WithTimeout and db.Feeds (lines 360-372).
\* A pass is started whenever a tick is there, whether or not update has returned.
StartPassOnEveryTick ==
    /\ up.pc = "wait" \/ up.tick = 1
    /\ up' = [IdleUp EXCEPT !.pc = "feeds", !.rerun = result.clean,
                            !.inflight = up.inflight + 1]
    /\ expired' = FALSE
    /\ \E rows \in Feeds : feedsCur' = [rows |-> rows, open |-> TRUE]
    /\ result' = NoResult
    /\ subsCur' = ClosedCur
    /\ sent' = <<>>
    /\ UNCHANGED <<cfg, store, now, tx, docs, main, notify, delivered, notices, dropped,
                   nfail, failCap>>

\* periodicUpdate is in its select (or at its first iteration) and calls update,
\* taking the tick that is there or that arrives now.
StartPass ==
    /\ up.pc = "wait"
    /\ IF RootDone
       THEN /\ up' = IdleUp
            /\ expired' = TRUE
            /\ feedsCur' = ClosedCur
            /\ result' = [err |-> Canceled, complete |-> FALSE, clean |-> FALSE]
       ELSE /\ up' = [IdleUp EXCEPT !.pc = "feeds", !.rerun = result.clean,
                                    !.inflight = up.inflight + 1]
            /\ expired' = FALSE
            /\ \E rows \in Feeds : feedsCur' = [rows |-> rows, open |-> TRUE]
            /\ result' = NoResult
    /\ subsCur' = ClosedCur
    /\ sent' = <<>>
    /\ UNCHANGED <<cfg, store, now, tx, docs, main, notify, delivered, notices, dropped,
                   nfail, failCap>>

\* Lines 368-372: db.Feeds fails on the store; update logs the error and
\* returns it, and periodicUpdate is in its select again.
StartPass_FeedsError ==
    /\ up.pc = "wait"
    /\ ~RootDone
    /\ up' = IdleUp
    /\ expired' = FALSE
    /\ feedsCur' = ClosedCur
    /\ subsCur' = ClosedCur
    /\ result' = [err |-> ErrDriver, complete |-> FALSE, clean |-> FALSE]
    /\ sent' = <<>>
    /\ UNCHANGED <<cfg, store, now, tx, docs, main, notify, delivered, notices, dropped,
                   nfail, failCap>>

\* The ticker of periodicUpdate (line 465) fires while a pass runs: the tick
\* waits in tick.C, which holds one tick; further ticks are dropped.
TickerFire ==
    /\ up.pc \notin {"wait", "exit"}
    /\ up.tick = 0
    /\ up' = [up EXCEPT !.tick = 1]
    /\ UNCHANGED <<cfg, store, now, tx, docs, feedsCur, subsCur, expired, result, main, notify,
                   observed>>

\* updateTimeout elapses while the pass runs.
Deadline ==
    /\ up.pc # "wait"
    /\ ~expired
    /\ expired' = TRUE
    /\ up' = [up EXCEPT !.ctxErr = DeadlineExceeded]
    /\ UNCHANGED <<cfg, store, now, tx, docs, feedsCur, subsCur, result, main, notify,
                   observed>>

\* The producer goroutine of db.Feeds takes the ctx.Done() case of its select
\* (part_000 205-207): it stops with rows unread and the channel is closed.
CancelFeeds ==
    /\ expired
    /\ feedsCur.open
    /\ feedsCur.rows # <<>>
    /\ feedsCur' = [feedsCur EXCEPT !.open = FALSE]
    /\ UNCHANGED <<cfg, store, now, tx, docs, up, subsCur, expired, result, main, notify,
                   observed>>

\* The same for the producer goroutine of db.Subs (part_000 243-245).
CancelSubs ==
    /\ expired
    /\ subsCur.open
    /\ subsCur.rows # <<>>
    /\ subsCur' = [subsCur EXCEPT !.open = FALSE]
    /\ UNCHANGED <<cfg, store, now, tx, docs, up, feedsCur, expired, result, main, notify,
                   observed>>

\* Line 374: for info := range feeds.  The next row, or the channel is closed
\* and update returns anyErr (line 461).
RecvFeed ==
    /\ up.pc = "feeds"
    /\ IF feedsCur.open /\ feedsCur.rows # <<>>
       THEN /\ up' = [up EXCEPT !.pc = "fetch", !.info = Head(feedsCur.rows)]
            /\ feedsCur' = [feedsCur EXCEPT !.rows = Tail(@)]
            /\ UNCHANGED <<subsCur, result>>
       ELSE Return(up.anyErr)
    /\ UNCHANGED <<cfg, store, now, tx, docs, expired, main, notify, observed>>

\* Lines 378-406: fp.ParseURLWithContext.  With the context done the fetch fails
\* and update returns ctx.Err(); a failed fetch and a document without any
\* timestamp go to feedError; otherwise the document and its update time.
Fetch(ok) ==
    /\ up.pc = "fetch"
    /\ IF expired
       THEN Return(up.ctxErr)
       ELSE /\ LET doc == docs[up.info.url]
               IN  IF ok /\ Freshness(doc) # NoTime
                   THEN up' = [up EXCEPT !.pc = "list", !.items = doc.items,
                                         !.updated = Freshness(doc)]
                   ELSE up' = [up EXCEPT !.pc = "ferr", !.failed = @ \/ ~ok,
                                         !.fetchErr = ~ok]
            /\ UNCHANGED <<feedsCur, subsCur, result>>
    /\ UNCHANGED <<cfg, store, now, tx, docs, expired, main, notify, observed>>

\* Lines 408-417: db.Subs(ctx, info.ID, updated).  With the context done the
\* query fails and update returns ctx.Err().
ListSubs ==
    /\ up.pc = "list"
    /\ IF expired
       THEN Return(up.ctxErr)
       ELSE /\ \E rows \in Reorder(Subs(up.info.id, up.updated)) :
                  subsCur' = [rows |-> rows, open |-> TRUE]
            /\ up' = [up EXCEPT !.pc = "subs"]
            /\ UNCHANGED <<feedsCur, result>>
    /\ UNCHANGED <<cfg, store, now, tx, docs, expired, main, notify, observed>>

\* db.Subs fails on the store with the context not done, and update returns
\* the error.
ListSubs_ErrorAborts ==
    /\ up.pc = "list"
    /\ ~expired
    /\ Return(ErrDriver)
    /\ UNCHANGED <<cfg, store, now, tx, docs, expired, main, notify, observed>>

\* Lines 408-417: db.Subs fails on the store with the context not done; the
\* error is logged and the loop goes on with the next feed.
ListSubs_Error ==
    /\ up.pc = "list"
    /\ ~expired
    /\ up' = [up EXCEPT !.pc = "feeds", !.failed = TRUE, !.items = <<>>,
                        !.updated = NoTime]
    /\ UNCHANGED <<cfg, store, now, tx, docs, feedsCur, subsCur, expired, result, main,
                   notify, observed>>

\* Lines 424-445: for sub := range subs.  The next subscriber with its new items
\* sorted, or the channel is closed and the loop over the feeds goes on.
RecvSub ==
    /\ up.pc = "subs"
    /\ IF subsCur.open /\ subsCur.rows # <<>>
       THEN LET sub == Head(subsCur.rows)
                newItems == NewItems(up.items, sub.LastUpdate)
            IN  /\ subsCur' = [subsCur EXCEPT !.rows = Tail(@)]
                /\ up' = IF Len(newItems) = 0 THEN up
                         ELSE [up EXCEPT !.pc = "send", !.sub = sub,
                                         !.newItems = SortItems(newItems)]
       ELSE /\ up' = [up EXCEPT !.pc = "feeds", !.cut = @ \/ subsCur.rows # <<>>,
                                !.items = <<>>, !.updated = NoTime, !.sub = NoSub]
            /\ subsCur' = ClosedCur
    /\ UNCHANGED <<cfg, store, now, tx, docs, feedsCur, expired, result, main, notify,
                   observed>>

\* Line 448 and main.go 611-614, 641-642: send hands the first of the remaining
\* new items to the main loop, which is in its select and passes it to bot.Send.
Send ==
    /\ up.pc = "send"
    /\ main.pc \in {"select", "cancelled"}
    /\ LET it == Head(up.newItems)
           key == <<up.sub.ChatID, up.info.id, it.id>>
       IN  /\ sent' = Append(sent, [chatID |-> up.sub.ChatID, feedID |-> up.info.id,
                                    item |-> it.id, pub |-> it.pub, ok |-> TRUE])
           /\ delivered' = [delivered EXCEPT ![key] = Bump(@)]
    /\ up' = [up EXCEPT !.pc = "advance"]
    /\ UNCHANGED <<cfg, store, now, tx, docs, feedsCur, subsCur, expired, result, main,
                   notify, notices, dropped, nfail, failCap>>

\* The same handoff, but bot.Send (main.go 642) returns an error: the message
\* does not reach the chat.  The main loop drops the error and send, which has
\* no result (sendFunc, line 323), has returned already.
Send_BotError ==
    /\ up.pc = "send"
    /\ main.pc \in {"select", "cancelled"}
    /\ LET it == Head(up.newItems)
           key == <<up.sub.ChatID, up.info.id, it.id>>
       IN  /\ sent' = Append(sent, [chatID |-> up.sub.ChatID, feedID |-> up.info.id,
                                    item |-> it.id, pub |-> it.pub, ok |-> FALSE])
           /\ delivered' = [delivered EXCEPT ![key] = Bump(@)]
    /\ up' = [up EXCEPT !.pc = "advance"]
    /\ UNCHANGED <<cfg, store, now, tx, docs, feedsCur, subsCur, expired, result, main,
                   notify, notices, dropped, nfail, failCap>>

\* Line 451: db.UpdateSub(ctx, sub.ChatID, info.ID, *item.PublishedParsed).  With
\* the context done ExecContext fails and the row is not touched.
Advance ==
    /\ up.pc = "advance"
    /\ IF expired
       THEN /\ up' = [up EXCEPT !.pc = "check", !.anyErr = up.ctxErr]
            /\ UNCHANGED updates
       ELSE /\ updates' = UpdateSub(up.sub.ChatID, up.info.id, Head(up.newItems).pub)
            /\ up' = [up EXCEPT !.pc = "check", !.anyErr = "nil"]
    /\ UNCHANGED <<cfg, feeds, nextID, feedErrors, now, tx, docs, feedsCur, subsCur, expired,
                   result, main, notify, observed>>

\* Lines 454-457: return ctx.Err() when the context is done, else the next item
\* or the next subscriber.
CheckCtx ==
    /\ up.pc = "check"
    /\ IF expired
       THEN Return(up.ctxErr)
       ELSE /\ up' = [up EXCEPT !.newItems = Tail(@),
                                !.pc = IF Len(up.newItems) > 1 THEN "send" ELSE "subs"]
            /\ UNCHANGED <<feedsCur, subsCur, result>>
    /\ UNCHANGED <<cfg, store, now, tx, docs, expired, main, notify, observed>>


\* ---------------------------------------------------------- feedError
\* Line 328: db.RecentFeedErrors over the last 12 hours.  With the context done
\* the query fails and feedError returns; below the threshold it returns too.
FeedError_Count ==
    /\ up.pc = "ferr"
    /\ nfail' = [nfail EXCEPT ![up.info.id] =
                    IF up.fetchErr /\ ~expired THEN Min(@ + 1, failCap) ELSE @]
    /\ LET n == RecentFeedErrors(now - FailureWindow, up.info.id)
       IN  up' = [up EXCEPT !.pc = IF ~expired /\ n >= FailureThreshold
                                   THEN "dropsubs" ELSE "feeds",
                            !.fetchErr = FALSE]
    /\ UNCHANGED <<cfg, store, now, tx, docs, feedsCur, subsCur, expired, result, main,
                   notify, sent, delivered, notices, dropped, failCap>>

\* Lines 333-341: chatIDs collects db.Subs(ctx, feed.ID, &firstSecond).
FeedError_Subs ==
    /\ up.pc = "dropsubs"
    /\ \E subs \in IF expired THEN {<<>>} ELSE Reorder(Subs(up.info.id, firstSecond)) :
          up' = [up EXCEPT !.pc = "drop",
                           !.chatIDs = [i \in 1..Len(subs) |-> subs[i].ChatID]]
    /\ UNCHANGED <<cfg, store, now, tx, docs, feedsCur, subsCur, expired, result, main,
                   notify, observed>>

\* Lines 343-355: db.DropFeed, then the goroutine that sends one notice to every
\* chat of chatIDs.  With the context done DropFeed fails and feedError returns.
FeedError_Drop ==
    /\ up.pc = "drop"
    /\ IF expired
       THEN UNCHANGED <<feeds, updates, notify, dropped>>
       ELSE /\ feeds' = DropFeed(up.info.id)
            /\ updates' = CascadeDelete(updates, up.info.id)
            /\ notify' = notify \o [i \in 1..Len(up.chatIDs) |->
                                      [chatID |-> up.chatIDs[i], feedID |-> up.info.id]]
            /\ dropped' = dropped \cup
                 {<<up.info.id, updates[i].chatID>> :
                     i \in {j \in 1..Len(updates) : updates[j].feedID = up.info.id}}
    /\ up' = [up EXCEPT !.pc = "feeds", !.chatIDs = <<>>]
    /\ UNCHANGED <<cfg, nextID, feedErrors, now, tx, docs, feedsCur, subsCur, expired, result,
                   main, sent, delivered, notices, nfail, failCap>>

\* Lines 351-355: the goroutine hands the next removal notice to the main loop.
Notify ==
    /\ notify # <<>>
    /\ main.pc \in {"select", "cancelled"}
    /\ notices' = [notices EXCEPT ![<<Head(notify).chatID, Head(notify).feedID>>] = Bump(@)]
    /\ notify' = Tail(notify)
    /\ UNCHANGED <<cfg, store, now, tx, docs, up, feedsCur, subsCur, expired, result, main,
                   sent, delivered, dropped, nfail, failCap>>

\* ------------------------------------------------- DB.RemoveFeedFromChat
BackendError == "Backend error"
FeedRemoved == "Feed was removed."
FeedsInChat == "Feeds in this chat:"
NoFeedsInChat == "No feeds in this chat."

\* The main loop: its position, the command at hand, what the store call
\* returned, the reply sent with bot.Send and the lines of a /feeds listing.
IdleMain == [pc |-> "select", chatID |-> 0, feedNum |-> 0, feedID |-> 0, ret |-> "none",
             reply |-> "none", list |-> <<>>]

\* ORDER BY nr: the rows of updates in the order they were inserted.
OrderByNr(rows) == rows

\* updates JOIN feeds on updates.feedID = feeds.id WHERE updates.chatID = ? ORDER BY nr
ChatRows(chatID) ==
    OrderByNr(SelectSeq(updates, LAMBDA r : r.chatID = chatID /\ FeedExists(r.feedID)))

\* Lines 159-163 (called from main.go 734): LIMIT feedNum-1, 1 picks the row;
\* a negative offset is refused by the server and a missing row is ErrNoRows.
RemoveFeedFromChat_Select(chatID, feedNum) ==
    /\ main.pc = "select"
    /\ LET rows == ChatRows(chatID)
       IN  main' = IF feedNum - 1 < 0
                   THEN [IdleMain EXCEPT !.ret = ErrSyntax, !.reply = BackendError]
                   ELSE IF feedNum > Len(rows)
                   THEN [IdleMain EXCEPT !.ret = ErrNoRows, !.reply = BackendError]
                   ELSE [IdleMain EXCEPT !.pc = "removing", !.chatID = chatID,
                                         !.feedNum = feedNum,
                                         !.feedID = rows[feedNum].feedID]
    /\ UNCHANGED <<cfg, store, now, tx, docs, up, feedsCur, subsCur, expired, result, notify,
                   observed>>

\* A DELETE FROM updates WHERE feedID=?, without the chatID of line 165.
RemoveFeedFromChat_DeleteByFeed ==
    /\ main.pc = "removing"
    /\ updates' = SelectSeq(updates, LAMBDA r : r.feedID # main.feedID)
    /\ main' = [IdleMain EXCEPT !.ret = "nil", !.reply = FeedRemoved]
    /\ UNCHANGED <<cfg, feeds, nextID, feedErrors, now, tx, docs, up, feedsCur, subsCur,
                   expired, result, notify, observed>>

\* Line 165: DELETE FROM updates WHERE chatID=? AND feedID=?
RemoveFeedFromChat_Delete ==
    /\ main.pc = "removing"
    /\ updates' = SelectSeq(updates,
                     LAMBDA r : ~(r.chatID = main.chatID /\ r.feedID = main.feedID))
    /\ main' = [IdleMain EXCEPT !.ret = "nil", !.reply = FeedRemoved]
    /\ UNCHANGED <<cfg, feeds, nextID, feedErrors, now, tx, docs, up, feedsCur, subsCur,
                   expired, result, notify, observed>>

\* ------------------------------------------------------- DB.FeedsByChat
FeedURL(feedID) == (CHOOSE f \in feeds : f.id = feedID).url

Perms(n) == {f \in [1..n -> 1..n] : \A i, j \in 1..n : f[i] = f[j] => i = j}

\* SELECT ROW_NUMBER() OVER (), feeds.title, feeds.url ... ORDER BY nr: the rows
\* in the order of nr; the window has no ORDER BY and is evaluated before the
\* ORDER BY of the query, so num, the numbers the rows carry, follow the order
\* in which the server happened to read them.
FeedsByChat(chatID, num) ==
    LET rows == ChatRows(chatID)
    IN  [k \in 1..Len(rows) |-> [ID |-> num[k], url |-> FeedURL(rows[k].feedID)]]

\* main.go 706-723: /feeds prints one line "[ID] title (url ...)" per row.
FeedsByChat_List(chatID) ==
    /\ main.pc = "select"
    /\ \E num \in Perms(Len(ChatRows(chatID))) :
          LET list == FeedsByChat(chatID, num)
          IN  main' = [IdleMain EXCEPT !.chatID = chatID, !.ret = "nil", !.list = list,
                                      !.reply = IF list = <<>> THEN NoFeedsInChat
                                                ELSE FeedsInChat]
    /\ UNCHANGED <<cfg, store, now, tx, docs, up, feedsCur, subsCur, expired, result, notify,
                   observed>>

\* ------------------------------------------------------------ shutdown
\* main.go 637-639: a signal arrives and the main loop calls cancel().
Shutdown_Signal ==
    /\ main.pc = "select"
    /\ main' = [IdleMain EXCEPT !.pc = "cancelled"]
    /\ expired' = TRUE
    /\ up' = IF expired \/ up.pc \in {"wait", "exit"} THEN up ELSE [up EXCEPT !.ctxErr = Canceled]
    /\ UNCHANGED <<cfg, store, now, tx, docs, feedsCur, subsCur, result, notify, observed>>

\* main.go 633-635: the select of the main loop takes ctx.Done() and main returns.
Main_Exit ==
    /\ main.pc = "cancelled"
    /\ main' = [main EXCEPT !.pc = "exited"]
    /\ UNCHANGED <<cfg, store, now, tx, docs, up, feedsCur, subsCur, expired, result, notify,
                   observed>>

\* main.go 478-480: the select of periodicUpdate takes ctx.Done() and returns.
PeriodicUpdate_Exit ==
    /\ up.pc = "wait"
    /\ RootDone
    /\ up' = [up EXCEPT !.pc = "exit"]
    /\ UNCHANGED <<cfg, store, now, tx, docs, feedsCur, subsCur, expired, result, main, notify,
                   observed>>

\* ------------------------------------------- the streaming cursors
\* One cursor of DB.Feeds, DB.Subs or DB.FeedsByChat with its producer goroutine
\* and its consumer, kept in feedsCur: the rows not yet handed over, whether the
\* result set is open, the producer's position (at rows.Next, in its select, or
\* returned), whether the channel is closed, and the consumer's position (in
\* its range, busy with a record, or out of the loop).
CursorKinds == {"Feeds", "Subs", "FeedsByChat"}

NewCursor(kind, n) ==
    [kind |-> kind, rows |-> [i \in 1..n |-> i], open |-> TRUE, prod |-> "next",
     closed |-> FALSE, cons |-> "range", late |-> 0]

\* for rows.Next(): a row to hand over, or no row is left (or the result set
\* was closed): the result set is released, the goroutine returns and the
\* deferred close(ch) runs.
Cursor_Next ==
    /\ feedsCur.prod = "next"
    /\ feedsCur' = IF feedsCur.open /\ feedsCur.rows # <<>>
                   THEN [feedsCur EXCEPT !.prod = "send"]
                   ELSE [feedsCur EXCEPT !.prod = "done", !.open = FALSE, !.closed = TRUE]
    /\ UNCHANGED <<cfg, store, now, tx, docs, up, subsCur, expired, result, main, notify,
                   observed>>

\* rows.Scan fails on the row rows.Next() has read: break, and the deferred
\* close(ch) runs.  Feeds (part_000 194-197) and FeedsByChat (141-144) call
\* rows.Close() before the break, Subs (230-232) does not.
Cursor_ScanError ==
    /\ feedsCur.prod = "next"
    /\ feedsCur.open
    /\ feedsCur.rows # <<>>
    /\ feedsCur' = [feedsCur EXCEPT !.prod = "done", !.closed = TRUE,
                                    !.open = (feedsCur.kind = "Subs")]
    /\ UNCHANGED <<cfg, store, now, tx, docs, up, subsCur, expired, result, main, notify,
                   observed>>

\* select, case ch <- record: the consumer is in its range and takes the record.
\* With the context done both cases of the select are ready and either is
\* taken; late counts the records handed over with the context done (up to 2).
Cursor_Send ==
    /\ feedsCur.prod = "send"
    /\ feedsCur.cons = "range"
    /\ feedsCur' = [feedsCur EXCEPT !.rows = Tail(@), !.prod = "next", !.cons = "busy",
                                    !.late = IF expired THEN Bump(@) ELSE @]
    /\ UNCHANGED <<cfg, store, now, tx, docs, up, subsCur, expired, result, main, notify,
                   observed>>

\* A send "ch <- record" without the select: there is no case <-ctx.Done() to
\* take, and the producer stays at its send until a consumer receives.
Cursor_SendOnly ==
    /\ feedsCur.prod = "send"
    /\ expired
    /\ FALSE
    /\ UNCHANGED vars

\* select, case <-ctx.Done(): rows.Close() and return; the deferred close(ch) runs.
Cursor_Cancel ==
    /\ feedsCur.prod = "send"
    /\ expired
    /\ feedsCur' = [feedsCur EXCEPT !.prod = "done", !.open = FALSE, !.closed = TRUE]
    /\ UNCHANGED <<cfg, store, now, tx, docs, up, subsCur, expired, result, main, notify,
                   observed>>

\* The consumer is done with a record and is back at its range.  A feed row
\* received with the context done is not: its fetch fails and update returns
\* (main.go 378-384).
Consumer_Loop ==
    /\ feedsCur.cons = "busy"
    /\ ~(feedsCur.kind = "Feeds" /\ feedsCur.late > 0)
    /\ feedsCur' = [feedsCur EXCEPT !.cons = "range"]
    /\ UNCHANGED <<cfg, store, now, tx, docs, up, subsCur, expired, result, main, notify,
                   observed>>

\* The range ends on the closed channel.
Consumer_End ==
    /\ feedsCur.cons = "range"
    /\ feedsCur.closed
    /\ feedsCur' = [feedsCur EXCEPT !.cons = "left"]
    /\ UNCHANGED <<cfg, store, now, tx, docs, up, subsCur, expired, result, main, notify,
                   observed>>

\* update leaves its loops early with return ctx.Err(), which it does only when
\* the context is done (main.go 382-384, 413-415, 454-456); the loop of /feeds
\* (main.go 716-719) has no way out.
Consumer_Stop ==
    /\ feedsCur.cons = "busy"
    /\ feedsCur.kind # "FeedsByChat"
    /\ expired
    /\ feedsCur' = [feedsCur EXCEPT !.cons = "left"]
    /\ UNCHANGED <<cfg, store, now, tx, docs, up, subsCur, expired, result, main, notify,
                   observed>>

\* The context of the cursor is done: updateTimeout, the shutdown signal or
\* the deferred cancel() of update (main.go 360-361) for Feeds and Subs, at
\* whatever point the producer is, also after it has returned.  FeedsByChat
\* runs on the root context, which only the main loop cancels, and the main
\* loop is the consumer of that cursor.
Ctx_Done ==
    /\ ~expired
    /\ feedsCur.kind # "FeedsByChat"
    /\ expired' = TRUE
    /\ UNCHANGED <<cfg, store, now, tx, docs, up, feedsCur, subsCur, result, main, notify,
                   observed>>

\* QueryContext ties the result set to its context: once the context is done,
\* database/sql closes a result set that is still open, in a goroutine of its
\* own.  rows.Next() then returns false.
Rows_AwaitDone ==
    /\ expired
    /\ feedsCur.open
    /\ feedsCur' = [feedsCur EXCEPT !.open = FALSE]
    /\ UNCHANGED <<cfg, store, now, tx, docs, up, subsCur, expired, result, main, notify,
                   observed>>

\* ---------------------------------------------------------- specifications
PubTimes == {NoTime} \cup 1..MaxPub
ItemSeqs ==
    UNION {{[k \in 1..n |-> [id |-> k, pub |-> pubs[k]]] : pubs \in [1..n -> PubTimes]} :
             n \in 0..MaxItems}
Docs == [updated : PubTimes, items : ItemSeqs]

EmptyStore ==
    /\ feeds = {}
    /\ nextID = 1
    /\ updates = <<>>
    /\ feedErrors = <<>>

\* One feed with one subscription, as an admission with non-zero limits leaves it.
OneSubStore ==
    /\ feeds = {[id |-> 1, url |-> 1, userID |-> 1]}
    /\ nextID = 2
    /\ updates = <<[chatID |-> 1, feedID |-> 1, userID |-> 1, lastUpdate |-> 1]>>
    /\ feedErrors = <<>>

\* Two feeds; both chats follow the first and chat 1 follows the second.
TwoFeedStore ==
    /\ feeds = {[id |-> 1, url |-> 1, userID |-> 1], [id |-> 2, url |-> 2, userID |-> 1]}
    /\ nextID = 3
    /\ updates = <<[chatID |-> 1, feedID |-> 1, userID |-> 1, lastUpdate |-> 1],
                   [chatID |-> 2, feedID |-> 1, userID |-> 1, lastUpdate |-> 1],
                   [chatID |-> 1, feedID |-> 2, userID |-> 1, lastUpdate |-> 1]>>
    /\ feedErrors = <<>>

EngineIdle ==
    /\ up = IdleUp
    /\ feedsCur = ClosedCur
    /\ subsCur = ClosedCur
    /\ expired = FALSE
    /\ result = NoResult
    /\ main = IdleMain
    /\ notify = <<>>
    /\ sent = <<>>
    /\ delivered = [k \in Chats \X FeedIDs \X ItemIDs |-> 0]
    /\ notices = [k \in Chats \X FeedIDs |-> 0]
    /\ dropped = {}
    /\ nfail = [f \in FeedIDs |-> 0]

NoDocs == [u \in URLs |-> [updated |-> NoTime, items |-> <<>>]]

\* Concurrent admissions on a store that is empty or holds rows admitted under
\* an earlier configuration.
InitAdmit ==
    /\ cfg \in [MaxFeedsPerChat : Limits, MaxTotalFeedsByUser : Limits,
                MaxActiveFeedsByUser : Limits]
    /\ (EmptyStore \/ OneSubStore)
    /\ now = TicksPerSecond
    /\ tx = [p \in Adders |-> IdleTx]
    /\ docs = NoDocs
    /\ EngineIdle
    /\ failCap = 0

NextAdmit ==
    \/ \E p \in Adders, u \in Users, c \in Chats, url \in URLs : AddFeedToChat_Check(p, u, c, url)
    \/ \E p \in Adders : AddFeedToChat_Feed(p)
    \/ \E p \in Adders : AddFeedToChat_Sub(p)
    \/ \E p \in Adders : AddFeedToChat_Commit(p)
    \/ \E p \in Adders : AddFeedToChat_Abort(p)
    \/ \E p \in Adders : AddFeedToChat_Return(p)

SpecAdmit == InitAdmit /\ [][NextAdmit]_vars

\* Update passes over fixed documents, no command arriving.
NonZeroLimits == [MaxFeedsPerChat |-> MaxRows, MaxTotalFeedsByUser |-> MaxRows,
                  MaxActiveFeedsByUser |-> MaxRows]

InitUpdate ==
    /\ cfg = NonZeroLimits
    /\ TwoFeedStore
    /\ now = TicksPerSecond
    /\ tx = [p \in Adders |-> IdleTx]
    /\ docs \in {d \in [URLs -> Docs] : d[2].updated = NoTime /\ Len(d[2].items) <= 1}
    /\ EngineIdle
    /\ failCap = 0

Pass ==
    \/ StartPass
    \/ Deadline
    \/ CancelFeeds
    \/ CancelSubs
    \/ RecvFeed
    \/ \E ok \in BOOLEAN : Fetch(ok)
    \/ ListSubs
    \/ RecvSub
    \/ Send
    \/ Advance
    \/ CheckCtx
    \/ FeedError_Count

NextUpdate ==
    \/ Pass
    \/ ListSubs_Error

SpecUpdate == InitUpdate /\ [][NextUpdate]_vars

\* Update passes while /removefeed and /addfeed commands arrive and the clock
\* advances; the second feed serves no document worth a delivery.
InitCommands ==
    /\ cfg = NonZeroLimits
    /\ OneSubStore
    /\ now = 2 * TicksPerSecond
    /\ tx = [p \in Adders |-> IdleTx]
    /\ docs \in {d \in [URLs -> Docs] :
                   /\ Len(d[1].items) = 1
                   /\ d[1].updated = NoTime
                   /\ d[2] = NoDocs[2]}
    /\ EngineIdle
    /\ failCap = 0

NextCommands ==
    \/ Pass
    \/ Tick
    \/ \E c \in Chats, n \in 0..MaxRows : RemoveFeedFromChat_Select(c, n)
    \/ RemoveFeedFromChat_Delete
    \/ \E c \in Chats : AddFeedToChat_Check(1, 1, c, 1)
    \/ AddFeedToChat_Feed(1)
    \/ AddFeedToChat_Sub(1)
    \/ AddFeedToChat_Commit(1)
    \/ AddFeedToChat_Return(1)

SpecCommands == InitCommands /\ [][NextCommands]_vars

\* Tables of feedErrors as inputs of RecentFeedErrors and of the threshold
\* test of feedError: n rows for feed 1 as INSERT INTO feedErrors (feedID,
\* timestamp) writes them.  Nothing calls DB.AddFeedError, so the program's own
\* runs keep the table empty; what the program does from its start is checked
\* from the empty table (SpecFailures, SpecIntegrity).
StoredErrors(n) == [i \in 1..n |-> [feedID |-> 1, timestamp |-> Unix(now)]]

\* One failure short of the threshold for feed 1 within the window, one failure
\* of feed 1 a second older than the window, and failures of another feed.
MixedErrors ==
    StoredErrors(FailureThreshold - 1)
    \o <<[feedID |-> 1, timestamp |-> Unix(now - FailureWindow) - 1]>>
    \o [i \in 1..FailureThreshold |-> [feedID |-> 2, timestamp |-> Unix(now)]]

InitQuarantine ==
    /\ cfg = NonZeroLimits
    /\ feeds = {[id |-> 1, url |-> 1, userID |-> 1]}
    /\ nextID = 2
    /\ updates = <<[chatID |-> 1, feedID |-> 1, userID |-> 1, lastUpdate |-> 1],
                   [chatID |-> 2, feedID |-> 1, userID |-> 1, lastUpdate |-> 1]>>
    /\ now = TicksPerSecond
    /\ feedErrors \in {StoredErrors(0), StoredErrors(FailureThreshold), MixedErrors}
    /\ tx = [p \in Adders |-> IdleTx]
    /\ docs \in {d \in [URLs -> Docs] : Len(d[1].items) <= 1 /\ d[2] = NoDocs[2]}
    /\ EngineIdle
    /\ failCap = FailureThreshold

NextQuarantine ==
    \/ Pass
    \/ FeedError_Subs
    \/ FeedError_Drop

SpecQuarantine == InitQuarantine /\ [][NextQuarantine]_vars

\* Update passes with failing fetches from the empty table of feedErrors.
\* RecentFeedErrors counts 0 every time, so feedError returns after the count.
InitFailures ==
    /\ InitQuarantine
    /\ feedErrors = <<>>

SpecFailures == InitFailures /\ [][Pass]_vars

\* Admissions and removals while passes run and fetches fail.  The table of
\* feedErrors is empty and stays so, so no pass gets to DropFeed.
InitIntegrity ==
    /\ cfg = NonZeroLimits
    /\ feeds = {[id |-> 1, url |-> 1, userID |-> 1]}
    /\ nextID = 2
    /\ updates = <<[chatID |-> 1, feedID |-> 1, userID |-> 1, lastUpdate |-> 1]>>
    /\ now = TicksPerSecond
    /\ feedErrors = <<>>
    /\ tx = [p \in Adders |-> IdleTx]
    /\ docs = NoDocs
    /\ EngineIdle
    /\ failCap = 0

NextIntegrity ==
    \/ StartPass
    \/ Deadline
    \/ CancelFeeds
    \/ RecvFeed
    \/ \E ok \in BOOLEAN : Fetch(ok)
    \/ FeedError_Count
    \/ \E c \in Chats, n \in 0..MaxRows : RemoveFeedFromChat_Select(c, n)
    \/ RemoveFeedFromChat_Delete
    \/ \E c \in Chats, url \in URLs : AddFeedToChat_Check(1, 1, c, url)
    \/ AddFeedToChat_Feed(1)
    \/ AddFeedToChat_Sub(1)
    \/ AddFeedToChat_Commit(1)
    \/ AddFeedToChat_Abort(1)
    \/ AddFeedToChat_Return(1)

SpecIntegrity == InitIntegrity /\ [][NextIntegrity]_vars

\* Commands only: /addfeed, /removefeed and /feeds on a store with rows.
OrdinalInputs == -1..(MaxRows + 1)

InitOrdinals ==
    /\ cfg = NonZeroLimits
    /\ TwoFeedStore
    /\ now = TicksPerSecond
    /\ tx = [p \in Adders |-> IdleTx]
    /\ docs = NoDocs
    /\ EngineIdle
    /\ failCap = 0

NextOrdinals ==
    \/ \E c \in Chats, n \in OrdinalInputs : RemoveFeedFromChat_Select(c, n)
    \/ RemoveFeedFromChat_Delete
    \/ \E c \in Chats : FeedsByChat_List(c)
    \/ \E u \in Users, c \in Chats, url \in URLs : AddFeedToChat_Check(1, u, c, url)
    \/ AddFeedToChat_Feed(1)
    \/ AddFeedToChat_Sub(1)
    \/ AddFeedToChat_Commit(1)
    \/ AddFeedToChat_Abort(1)
    \/ AddFeedToChat_Return(1)

SpecOrdinals == InitOrdinals /\ [][NextOrdinals]_vars

\* One cursor over 0..MaxCursorRows rows.  The goroutines are scheduled, the
\* consumer gets done with each record, and the pass context of Feeds and Subs
\* is done after updateTimeout at the latest.
InitCursor ==
    /\ cfg = NonZeroLimits
    /\ TwoFeedStore
    /\ now = TicksPerSecond
    /\ tx = [p \in Adders |-> IdleTx]
    /\ docs = NoDocs
    /\ up = IdleUp
    /\ feedsCur \in {NewCursor(k, n) : k \in CursorKinds, n \in 0..MaxCursorRows}
    /\ subsCur = ClosedCur
    /\ expired = FALSE
    /\ result = NoResult
    /\ main = IdleMain
    /\ notify = <<>>
    /\ sent = <<>>
    /\ delivered = [k \in Chats \X FeedIDs \X ItemIDs |-> 0]
    /\ notices = [k \in Chats \X FeedIDs |-> 0]
    /\ dropped = {}
    /\ nfail = [f \in FeedIDs |-> 0]
    /\ failCap = 0

NextCursor ==
    \/ Cursor_Next
    \/ Cursor_Send
    \/ Cursor_Cancel
    \/ Consumer_Loop
    \/ Consumer_End
    \/ Consumer_Stop
    \/ Ctx_Done
    \/ Rows_AwaitDone

SpecCursor ==
    /\ InitCursor
    /\ [][NextCursor]_vars
    /\ WF_vars(Cursor_Next)
    /\ WF_vars(Cursor_Send)
    /\ WF_vars(Cursor_Cancel)
    /\ WF_vars(Consumer_Loop)
    /\ WF_vars(Consumer_End)
    /\ WF_vars(Consumer_Stop)
    /\ WF_vars(Ctx_Done)
    /\ WF_vars(Rows_AwaitDone)

\* The same cursors, where the scan of a row may fail.
NextScan ==
    \/ NextCursor
    \/ Cursor_ScanError

SpecScan == InitCursor /\ [][NextScan]_vars

\* One feed with an item to deliver; passes run and a shutdown signal may
\* arrive.  Every goroutine that can take a step does so eventually.
InitShutdown ==
    /\ cfg = NonZeroLimits
    /\ OneSubStore
    /\ now = TicksPerSecond
    /\ tx = [p \in Adders |-> IdleTx]
    /\ docs = [NoDocs EXCEPT ![1] = [updated |-> NoTime, items |-> <<[id |-> 1, pub |-> MaxPub]>>]]
    /\ EngineIdle
    /\ failCap = 0

NextShutdown ==
    \/ Pass
    \/ Shutdown_Signal
    \/ Main_Exit
    \/ PeriodicUpdate_Exit

SpecShutdown ==
    /\ InitShutdown
    /\ [][NextShutdown]_vars
    /\ WF_vars(Pass)
    /\ WF_vars(Main_Exit)
    /\ WF_vars(PeriodicUpdate_Exit)

\* Passes over one feed with an item to deliver, which bot.Send may fail to
\* deliver, and db.Feeds may fail, the ticker firing meanwhile.  One of the
\* documents has its only item dated at the Unix epoch.
InitSingleFlight ==
    /\ cfg = NonZeroLimits
    /\ OneSubStore
    /\ now = TicksPerSecond
    /\ tx = [p \in Adders |-> IdleTx]
    /\ docs \in {d \in [URLs -> Docs] : Len(d[1].items) = 1 /\ d[2] = NoDocs[2]}
               \cup {[NoDocs EXCEPT ![1] = [updated |-> NoTime,
                                            items |-> <<[id |-> 1, pub |-> firstSecond]>>]]}
    /\ EngineIdle
    /\ failCap = 0

NextSingleFlight ==
    \/ Pass
    \/ StartPass_FeedsError
    \/ Send_BotError
    \/ TickerFire

\* The ticker goes on firing and the store, the feed servers and the main
\* loop answer, so the engine gets done with each of its steps.
SpecSingleFlight ==
    /\ InitSingleFlight
    /\ [][NextSingleFlight]_vars
    /\ WF_vars(Pass)

\* /addfeed commands with http and https URLs, two of them at a time.
InitIdentity ==
    /\ cfg = NonZeroLimits
    /\ (EmptyStore \/ OneSubStore)
    /\ now = TicksPerSecond
    /\ tx = [p \in Adders |-> IdleTx]
    /\ docs = NoDocs
    /\ EngineIdle
    /\ failCap = 0

NextIdentity ==
    \/ \E p \in Adders, u \in Users, c \in Chats, raw \in RawURLs : addFeed(p, u, c, raw)
    \/ \E p \in Adders : AddFeedToChat_Feed(p)
    \/ \E p \in Adders : AddFeedToChat_Sub(p)
    \/ \E p \in Adders : AddFeedToChat_Commit(p)
    \/ \E p \in Adders : AddFeedToChat_Abort(p)
    \/ \E p \in Adders : AddFeedToChat_Return(p)

SpecIdentity == InitIdentity /\ [][NextIdentity]_vars

\* /addfeed commands for feeds the chat may hold already, the first of them a
\* second after the subscription of the store was made; the clock advances.
InitResubscribe ==
    /\ cfg = NonZeroLimits
    /\ OneSubStore
    /\ now = 2 * TicksPerSecond
    /\ tx = [p \in Adders |-> IdleTx]
    /\ docs = NoDocs
    /\ EngineIdle
    /\ failCap = 0

NextResubscribe ==
    \/ \E p \in Adders, c \in Chats, raw \in RawURLs : addFeed(p, 1, c, raw)
    \/ \E p \in Adders : AddFeedToChat_Feed(p)
    \/ \E p \in Adders : AddFeedToChat_Sub(p)
    \/ \E p \in Adders : AddFeedToChat_Commit(p)
    \/ \E p \in Adders : AddFeedToChat_Return(p)
    \/ Tick

SpecResubscribe == InitResubscribe /\ [][NextResubscribe]_vars

\* ---------------------------------------------------- admission claims
ChatCount(chatID) == Count(updates, LAMBDA r : r.chatID = chatID)
TotalByUser(userID) == Cardinality({f \in feeds : f.userID = userID})
ActiveByUser(userID) == Count(updates, LAMBDA r : r.userID = userID)

\* C1: quota atomicity.  Whatever the interleaving of concurrent AddFeedToChat
\* calls, the committed tables never exceed a non-zero limit: subscriptions per
\* chat <= MaxFeedsPerChat, feeds created by an owner <= MaxTotalFeedsByUser,
\* subscriptions owned by an owner <= MaxActiveFeedsByUser.
C1_QuotaAtomicity ==
    /\ cfg.MaxFeedsPerChat # 0 => \A c \in Chats : ChatCount(c) <= cfg.MaxFeedsPerChat
    /\ cfg.MaxTotalFeedsByUser # 0 => \A u \in Users : TotalByUser(u) <= cfg.MaxTotalFeedsByUser
    /\ cfg.MaxActiveFeedsByUser # 0 => \A u \in Users : ActiveByUser(u) <= cfg.MaxActiveFeedsByUser

\* The three quota predicates as the claims state them, on the counts the
\* call read: a limit of 0 never declines.
ChatLimitHit(t) == cfg.MaxFeedsPerChat # 0 /\ t.seen[1] >= cfg.MaxFeedsPerChat
TotalLimitHit(t) == cfg.MaxTotalFeedsByUser # 0 /\ t.seen[2] >= cfg.MaxTotalFeedsByUser
ActiveLimitHit(t) == cfg.MaxActiveFeedsByUser # 0 /\ t.seen[3] >= cfg.MaxActiveFeedsByUser

\* C9: unlimited quota.  With a limit configured as 0 the call is never declined
\* for that dimension and the constraint check raises no store error: when no
\* predicate with a non-zero limit holds the check lets the admission through.
C9_UnlimitedQuota ==
    \A p \in Adders : tx[p].check # "none" =>
        /\ cfg.MaxFeedsPerChat = 0 => tx[p].check # ErrMaxFeedsInChat
        /\ cfg.MaxTotalFeedsByUser = 0 => tx[p].check # ErrMaxTotalFeedsByUser
        /\ cfg.MaxActiveFeedsByUser = 0 => tx[p].check # ErrMaxActiveFeedsByUser
        /\ (0 \in {cfg.MaxFeedsPerChat, cfg.MaxTotalFeedsByUser, cfg.MaxActiveFeedsByUser}
            /\ ~ChatLimitHit(tx[p]) /\ ~TotalLimitHit(tx[p]) /\ ~ActiveLimitHit(tx[p]))
           => tx[p].check = "nil"

\* C10: admission decision and priority.  AddFeedToChat returns a quota error
\* exactly when one of the three predicates holds, and the error is that of the
\* lowest-numbered predicate that holds.
C10_DecisionAndPriority ==
    \A p \in Adders : tx[p].pc = "done" =>
        /\ tx[p].ret \in QuotaErrors
             <=> (ChatLimitHit(tx[p]) \/ TotalLimitHit(tx[p]) \/ ActiveLimitHit(tx[p]))
        /\ ChatLimitHit(tx[p]) => tx[p].ret = ErrMaxFeedsInChat
        /\ (~ChatLimitHit(tx[p]) /\ TotalLimitHit(tx[p])) => tx[p].ret = ErrMaxTotalFeedsByUser
        /\ (~ChatLimitHit(tx[p]) /\ ~TotalLimitHit(tx[p]) /\ ActiveLimitHit(tx[p]))
             => tx[p].ret = ErrMaxActiveFeedsByUser

\* The decision and its priority when all three limits are non-zero.
DecisionAndPriorityNonZero ==
    (0 \notin {cfg.MaxFeedsPerChat, cfg.MaxTotalFeedsByUser, cfg.MaxActiveFeedsByUser})
        => C10_DecisionAndPriority


\* ------------------------------------------------------ update claims
LastUpdateOf(chatID, feedID) ==
    LET hit == SelectSeq(updates, LAMBDA r : r.chatID = chatID /\ r.feedID = feedID)
    IN  IF hit = <<>> THEN NoTime ELSE hit[1].lastUpdate

SentTo(chatID, feedID) ==
    SelectSeq(sent, LAMBDA m : m.chatID = chatID /\ m.feedID = feedID)

\* C2: exactly-once delivery, its "never twice" half.  Over any sequence of
\* update passes no item is handed to the notifier twice for the same chat.
C2_ExactlyOnce == \A k \in Chats \X FeedIDs \X ItemIDs : delivered[k] <= 1

\* C4: ordering.  When a pass has processed every feed and returned normally, the items each subscriber
\* received in it were handed over in ascending publish-time order and the
\* subscriber's lastUpdate is the largest publish time among them.
C4_Ordering ==
    (up.pc = "wait" /\ result.err = "nil" /\ result.complete) =>
        \A c \in Chats, f \in FeedIDs :
            LET msgs == SentTo(c, f)
            IN  msgs # <<>> =>
                  /\ \A i, j \in 1..Len(msgs) : i < j => msgs[i].pub <= msgs[j].pub
                  /\ TimeUnix(LastUpdateOf(c, f)) = msgs[Len(msgs)].pub

\* C5: idempotent re-run.  A pass that follows a pass which returned normally
\* before its deadline, over the same documents and with no command in between,
\* hands nothing to the notifier and changes no lastUpdate.
C5_IdempotentRerun == [][up.rerun => (sent' = sent /\ updates' = updates)]_vars

\* C6: deadline respected.  update returns a normal result only when every feed
\* row and every subscriber row the store yielded was processed; a pass the
\* deadline cut short returns deadline-exceeded.
C6_DeadlineRespected ==
    (up.pc = "wait" /\ result.err = "nil") => result.complete

\* C3: monotonic progress.  While a subscription (chatID, feedID) is stored, no
\* step of a pass or of a command lowers its lastUpdate.
C3_MonotonicProgress ==
    [][\A c \in Chats, f \in FeedIDs :
          (LastUpdateOf(c, f) # NoTime /\ LastUpdateOf(c, f)' # NoTime)
             => LastUpdateOf(c, f)' >= LastUpdateOf(c, f)]_vars

\* C7: quarantine trigger.  Once feedError has handled the 9th failed fetch of a
\* feed (all within 12 hours, none in a pass past its deadline), the feed row
\* and every subscription of the feed are gone.
C7_QuarantineTrigger ==
    \A f \in FeedIDs :
        (nfail[f] >= FailureThreshold /\ up.pc \notin {"ferr", "dropsubs", "drop"})
            => (~FeedExists(f) /\ \A c \in Chats : LastUpdateOf(c, f) = NoTime)

\* C8: quarantine notice.  Once feedError has handled the failure at which
\* the quarantine policy drops a feed (the 9th within 12 hours), every chat
\* that had a subscription to the feed at that moment has exactly one removal
\* notice, sent or about to be sent, whatever its lastUpdate was.
PendingNotices(chatID, feedID) ==
    Len(SelectSeq(notify, LAMBDA m : m.chatID = chatID /\ m.feedID = feedID))
NewSubFor(feedID) ==
    /\ Len(updates') = Len(updates) + 1
    /\ updates'[Len(updates')].feedID = feedID
C11_AllOrNothing ==
    [][/\ \A p \in Adders :
             (tx[p].pc # "done" /\ tx'[p].pc = "done" /\ tx'[p].ret # "nil")
                => (feeds' = feeds /\ updates' = updates)
       /\ \A f \in feeds' \ feeds : NewSubFor(f.id)]_vars

\* An admission that had inserted a new feed row failed afterwards, and the
\* feed row is not in the table.
C11_RolledBack ==
    \E p \in Adders :
        /\ tx[p].pc = "done"
        /\ tx[p].ret = ErrDriver
        /\ tx[p].feedID # 0
        /\ ~FeedExists(tx[p].feedID)

C13_OrdinalStability ==
    \A k \in 1..Len(main.list) : main.list[k].ID = k

\* ------------------------------------------------------- cursor claims
\* C14: cursor resource release.  The producer goroutine of a cursor returns
\* and its result set is released, whether the consumer drains the sequence,
\* leaves its loop early or the context is done while a record waits.
C14_CursorRelease ==
    <>(feedsCur.prod = "done" /\ ~feedsCur.open)

\* The consumer is out of its loop with rows unread; the producer has returned and the
\* result set is released.
C14_ReleasedWithRowsUnread ==
    /\ feedsCur.cons = "left"
    /\ feedsCur.rows # <<>>
    /\ feedsCur.prod = "done"
    /\ ~feedsCur.open

\* ------------------------------------------------------- engine claims
\* C15: shutdown unwind.  Once the root context is cancelled, the goroutine of
\* periodicUpdate returns, from whatever point of a pass it is at.
C15_ShutdownUnwind ==
    RootDone ~> (up.pc = "exit")

\* C16: single-flight.  At most one call of update is in progress at any time,
\* and one is in progress exactly while periodicUpdate is not in its select.
C16_SingleFlight ==
    /\ up.inflight \in {0, 1}
    /\ up.inflight = 1 <=> up.pc # "wait"

\* The ticker has fired while a pass is running, and the tick waits.
C16_TickDuringPass ==
    /\ up.tick = 1
    /\ up.inflight = 1
    /\ up.pc = "send"

\* C17: removal of a nonexistent ordinal.  RemoveFeedFromChat with an ordinal
\* outside 1..n, n the number of the chat's subscriptions, reports not-found
\* (no row), not a store error, the user is not told of a backend error, and
\* the store is left as it was.
C17_OutOfRangeIsNotFound ==
    [][\A c \in Chats, n \in OrdinalInputs :
          (RemoveFeedFromChat_Select(c, n) /\ n \notin 1..Len(ChatRows(c)))
              => /\ main'.ret = ErrNoRows
                 /\ main'.reply # BackendError
                 /\ store' = store]_vars

\* C18: feed identity.  There is at most one feed row per normalized URL, the
\* stored URL has no scheme and http://X and https://X normalize to the same
\* URL, also when two admissions of one unseen URL run at the same time; an
\* admission of a URL that has a feed row commits with that row's id and adds
\* no feed.
C18_FeedIdentity ==
    /\ [](/\ \A f, g \in feeds : f.url = g.url => f = g
          /\ \A f \in feeds : f.url \in URLs
          /\ \A a, b \in RawURLs : a.Rest = b.Rest => Normalize(a) = Normalize(b))
    /\ [][\A p \in Adders :
             (AddFeedToChat_Commit(p) /\ \E f \in feeds : f.url = tx[p].url)
                 => /\ feeds' = feeds
                    /\ tx[p].feedID = FeedIDByURL(tx[p].url)]_vars

\* Two admissions of one unseen URL ran at the same time: one committed the
\* feed row and its subscription, the INSERT of the other was refused.
C18_ConcurrentSameURL ==
    \E p, q \in Adders :
        /\ p # q
        /\ tx[p].pc = "done" /\ tx[p].ret = "nil"
        /\ tx[q].pc = "done" /\ tx[q].ret = ErrDuplicate /\ tx[q].feedID = 0
        /\ tx[p].url = tx[q].url
        /\ Cardinality({f \in feeds : f.url = tx[p].url}) = 1

\* C19: subscription uniqueness.  There is at most one subscription per
\* (chatID, feedID); the INSERT of an admission for a chat that holds the feed
\* already is refused, and an admission never changes a subscription that is
\* there, its lastUpdate included.
C19_SubscriptionUnique ==
    /\ [](\A i, j \in 1..Len(updates) :
             (updates[i].chatID = updates[j].chatID /\ updates[i].feedID = updates[j].feedID)
                 => i = j)
    /\ [][\A p \in Adders :
             (AddFeedToChat_Sub(p) /\ ~UniqueSub(tx[p].chatID, tx[p].feedID))
                 => (tx'[p].pc = "done" /\ tx'[p].ret = ErrDuplicate)]_vars
    /\ [][\A i \in 1..Len(updates) : Len(updates') >= i /\ updates'[i] = updates[i]]_vars

\* An admission for a feed the chat subscribed to at an earlier second was
\* refused, and the subscription is there with its lastUpdate.
C19_RefusedResubscription ==
    \E p \in Adders, i \in 1..Len(updates) :
        /\ tx[p].pc = "done" /\ tx[p].ret = ErrDuplicate /\ tx[p].feedID # 0
        /\ updates[i].chatID = tx[p].chatID /\ updates[i].feedID = tx[p].feedID
        /\ updates[i].lastUpdate < Unix(now)

\* C20: failure recording.  When feedError handles a failure in a pass whose
\* deadline has not elapsed, one row of feedErrors is added for the feed, and
\* the count the policy decides on includes it: the feed goes on to be dropped
\* exactly if the rows counted with the new one reach the threshold.
C20_FailureRecorded ==
    [][(FeedError_Count /\ ~expired)
          => /\ feedErrors' = AddFeedError(up.info.id)
             /\ up'.pc = "dropsubs"
                  <=> RecentFeedErrors(now - FailureWindow, up.info.id) + 1
                         >= FailureThreshold]_vars

\* ------------------------------------------------------- engine claims
\* C21: advance follows delivery.  UpdateSub changes the lastUpdate of a
\* subscription only after the item at hand was handed to the notifier for
\* that subscriber and delivered, and the value written is that item's publish
\* time (in the whole seconds the store keeps).
C21_AdvanceFollowsDelivery ==
    [][(Advance /\ updates' # updates)
          => /\ sent # <<>>
             /\ LET m == sent[Len(sent)]
                IN  /\ m.chatID = up.sub.ChatID
                    /\ m.feedID = up.info.id
                    /\ m.item = Head(up.newItems).id
                    /\ m.ok
                    /\ \A i \in 1..Len(updates) :
                          updates'[i] # updates[i]
                              => updates'[i].lastUpdate = Unix(m.pub)]_vars

\* C22: delta filter.  An item handed to the notifier has a publish time, and
\* it is later than the lastUpdate the pass read for the subscriber; for a
\* subscriber none of whose items is such, the pass goes on to the next
\* subscriber with nothing sent and no row of updates written.
C22_DeltaFilter ==
    /\ [][Send => LET m == sent'[Len(sent')]
                  IN  /\ m.chatID = up.sub.ChatID
                      /\ m.pub # NoTime
                      /\ m.pub > up.sub.LastUpdate]_vars
    /\ [][(/\ RecvSub
           /\ subsCur.open
           /\ subsCur.rows # <<>>
           /\ \A k \in 1..Len(up.items) :
                 \/ up.items[k].pub = NoTime
                 \/ up.items[k].pub <= Head(subsCur.rows).LastUpdate)
             => (up'.pc = "subs" /\ sent' = sent /\ updates' = updates)]_vars

\* A subscriber was listed and passed over with nothing sent, the document
\* holding an item published exactly at the subscriber's lastUpdate.
C22_SubscriberSkipped ==
    /\ up.pc = "subs"
    /\ sent = <<>>
    /\ subsCur.open
    /\ Len(subsCur.rows) < Len(Subs(up.info.id, up.updated))
    /\ \E k \in 1..Len(up.items) : up.items[k].pub = TimeUnix(1)

\* C23: local failures do not abort the pass.  A failed fetch before the
\* deadline goes to the quarantine policy and a failed subscriber listing
\* before the deadline is skipped; in both cases update does not return and
\* the rows of the feed list not yet read stay to be read.  With the deadline
\* elapsed, a failed fetch or listing makes update return deadline-exceeded
\* without a call of the quarantine policy.
C23_LocalFailures ==
    /\ [][(Fetch(FALSE) /\ ~expired)
             => (up'.pc = "ferr" /\ feedsCur' = feedsCur /\ result' = result)]_vars
    /\ [][FeedError_Count
             => (up'.pc \in {"feeds", "dropsubs"} /\ feedsCur' = feedsCur /\ result' = result)]_vars
    /\ [][ListSubs_Error
             => (up'.pc = "feeds" /\ feedsCur' = feedsCur /\ result' = result)]_vars
    /\ [][(((\E ok \in BOOLEAN : Fetch(ok)) \/ ListSubs) /\ expired)
             => /\ up'.pc = "wait"
                /\ result'.err = DeadlineExceeded
                /\ nfail' = nfail]_vars

\* After a failure at the first feed of the list, with the deadline not
\* elapsed, the same pass is reading the subscribers of the second feed.
C23_LaterFeedProcessed ==
    /\ up.failed
    /\ ~expired
    /\ up.info.id = 2
    /\ up.pc = "subs"

\* C24: passes keep coming.  With no shutdown, periodicUpdate never returns,
\* whatever update returned (nil, an error of db.Feeds, deadline exceeded)
\* another pass starts, and a tick that fired during a pass is still there
\* when update returns, so that the next pass starts on it.
C24_PassesKeepComing ==
    /\ [](up.pc # "exit")
    /\ (up.pc = "wait" /\ result.err \in {"nil", ErrDriver, DeadlineExceeded})
           ~> (up.pc = "feeds")
    /\ [][(up.pc # "wait" /\ up'.pc = "wait") => up'.tick = up.tick]_vars

\* A pass that ran past the next tick has returned deadline exceeded, and
\* the tick is waiting.
C24_OverrunPassReturned ==
    /\ up.pc = "wait"
    /\ result.err = DeadlineExceeded
    /\ up.tick = 1

\* C25: freshness timestamp.  For a document that was fetched, the time the
\* pass goes on to list the subscribers with is the feed-level update time
\* when the document has one, else the latest publish time of its items; a
\* document with neither goes to the quarantine policy.
C25_FreshnessTimestamp ==
    [][(Fetch(TRUE) /\ ~expired)
          => LET doc == docs[up.info.url]
                 stamps == {doc.items[k].pub : k \in 1..Len(doc.items)} \ {NoTime}
             IN  IF doc.updated # NoTime
                 THEN up'.pc = "list" /\ up'.updated = doc.updated
                 ELSE IF stamps # {}
                 THEN /\ up'.pc = "list"
                      /\ up'.updated \in stamps
                      /\ \A t \in stamps : t <= up'.updated
                 ELSE up'.pc = "ferr"]_vars

\* C26: cursor cancellation is bounded.  With the context done the consumer
\* of a cursor receives at most one further record, the channel is closed
\* once the producer has returned, and the range of the consumer ends.
C26_CancellationBounded ==
    /\ [](feedsCur.late <= 1)
    /\ [](feedsCur.prod = "done" => feedsCur.closed)
    /\ <>(feedsCur.cons = "left")

\* C27: cursor scan error.  When the scan of a row fails, the producer
\* returns with the channel closed and the result set released, and neither
\* the failing row nor a later one is handed over.
C27_ScanError ==
    [][Cursor_ScanError
          => /\ feedsCur'.prod = "done"
             /\ feedsCur'.closed
             /\ feedsCur'.rows = feedsCur.rows
             /\ ~feedsCur'.open]_vars

\* C28: advance on a removed subscription.  When the subscription the pass
\* is delivering to is gone by the time UpdateSub runs, UpdateSub leaves the
\* table as it is, what it returns to update is a not-found result, and the
\* pass goes on.
C28_AdvanceOnRemoved ==
    [][(Advance /\ ~expired /\ UniqueSub(up.sub.ChatID, up.info.id))
          => /\ updates' = updates
             /\ up'.anyErr = ErrNoRows
             /\ up'.pc = "check"]_vars

\* C29: quarantine only at the threshold.  DropFeed removes a feed only when
\* the table holds 9 or more failures of that feed not older than 12 hours;
\* while a feed has fewer, no step removes its row or one of its
\* subscriptions.
C29_OnlyAtThreshold ==
    [][\A f \in FeedIDs :
          Count(feedErrors, LAMBDA e : /\ e.feedID = f
                                       /\ Unix(now) - e.timestamp <= FailureWindowHours * 3600)
              < FailureThreshold
          => /\ FeedExists(f) => FeedExists(f)'
             /\ \A c \in Chats :
                   LastUpdateOf(c, f) # NoTime => LastUpdateOf(c, f)' # NoTime]_vars

\* The quarantine policy has handled a failed fetch of feed 1 with 8 recent
\* failures, an older one and 9 failures of another feed stored, and the feed
\* is there.
C29_BelowThresholdKept ==
    /\ feedErrors = MixedErrors
    /\ nfail[1] > 0
    /\ up.pc = "feeds"
    /\ FeedExists(1)
    /\ LastUpdateOf(1, 1) # NoTime

\* C30: subscriber listing.  The cursor db.Subs opens for a feed and a time
\* notAfter holds, each once, the subscriptions of that feed whose lastUpdate
\* is earlier than notAfter, and no other row.
C30_SubscriberListing ==
    [][(ListSubs /\ ~expired)
          => LET hit == SelectSeq(updates,
                            LAMBDA r : /\ r.feedID = up.info.id
                                       /\ TimeUnix(r.lastUpdate) < up.updated)
             IN  subsCur'.rows = [i \in 1..Len(hit) |->
                                    [ChatID |-> hit[i].chatID,
                                     LastUpdate |-> TimeUnix(hit[i].lastUpdate)]]]_vars

\* C31: resume after an interrupted batch.  When update has returned deadline
\* exceeded, the lastUpdate stored for every subscription the pass delivered
\* to is the publish time (in the whole seconds the store keeps) of the last
\* item handed to the notifier for it.
C31_ResumePoint ==
    (up.pc = "wait" /\ result.err = DeadlineExceeded)
        => \A c \in Chats, f \in FeedIDs :
              LET batch == SentTo(c, f)
              IN  batch # <<>> => LastUpdateOf(c, f) = Unix(batch[Len(batch)].pub)

\* C32: feed lookup.  For a URL that has a feed row FeedByURL returns that
\* row's id without error, and addFeed passes on the stored title; for a URL
\* without a feed row it returns not-found, and the title is the fetched one.
C32_FeedLookup ==
    [][\A p \in Adders, u \in Users, c \in Chats, raw \in RawURLs :
          addFeed(p, u, c, raw)
              => LET url == Normalize(raw)
                     info == FeedByURL(url)
                 IN  IF \E f \in feeds : f.url = url
                     THEN /\ info.err = "nil"
                          /\ info.ID = FeedIDByURL(url)
                          /\ tx'[p].title = "stored"
                     ELSE /\ info.err = ErrNoRows
                          /\ tx'[p].title = "fetched"]_vars

\* C33: unsubscribe takes effect.  Subscription rows leave the table only by
\* RemoveFeedFromChat and come back only by a new subscription, so every item
\* a pass hands to the notifier goes to a chat that has a subscription row for
\* the item's feed at that moment, also when the pass listed the subscribers
\* before a removal.
C33_UnsubscribeTakesEffect ==
    [][Send => ~UniqueSub(up.sub.ChatID, up.info.id)]_vars

\* C34: frame of removal.  The DELETE of a RemoveFeedFromChat(chat, k) that
\* returns nil takes exactly one row out of updates, the row of that chat at
\* ordinal k, and every other row stays as it is, its lastUpdate included; the
\* feeds table, the feed's own row with it, and the failure records stay too.
C34_RemovalFrame ==
    [][RemoveFeedFromChat_Delete
          => LET rows == ChatRows(main.chatID)
             IN  /\ main.feedNum \in 1..Len(rows)
                 /\ rows[main.feedNum].feedID = main.feedID
                 /\ Len(updates') = Len(updates) - 1
                 /\ updates' = SelectSeq(updates, LAMBDA r : r # rows[main.feedNum])
                 /\ feeds' = feeds
                 /\ \E f \in feeds' : f.id = main.feedID
                 /\ feedErrors' = feedErrors
                 /\ main'.ret = "nil"]_vars

\* C34: chat 1 has removed its first subscription, the one to feed 1: chat 2
\* still follows feed 1, chat 1 still follows feed 2, and feed 1 has its row.
C34_RemovedOneOfThree ==
    /\ main.reply = FeedRemoved
    /\ UniqueSub(1, 1)
    /\ ~UniqueSub(2, 1)
    /\ ~UniqueSub(1, 2)
    /\ FeedExists(1)
    /\ Len(updates) = 2

====
